---- MODULE Spec2Model ----
(***************************************************************************)
(* Model of src/app.py: a Flask service holding one process-wide           *)
(* query_engine (line 40), rebuilt by POST /api/upload (handle_upload,     *)
(* index_file, load_query_engine) and read by POST /api/query              *)
(* (handle_query).  PERSIST_DIR is modelled as its two snapshot files:     *)
(* docstore.json (the file load_query_engine tests for, line 45) and the   *)
(* vector store written after it by storage_context.persist (line 81).     *)
(*                                                                         *)
(* Two specifications share the same operators:                            *)
(*   SeqSpec  requests are served one at a time; each handler is one       *)
(*            atomic action;                                               *)
(*   Spec     app.run (line 153) serves requests on threads; an upload     *)
(*            handler is split at each access to PERSIST_DIR or to the     *)
(*            global, and handlers interleave.                             *)
(* load_query_engine reads the directory and rebinds the global in one     *)
(* step; the later, stale rebinding that two racing loads allow is not     *)
(* explored.                                                               *)
(***************************************************************************)
EXTENDS Integers, Sequences, FiniteSets, Bags, TLC

VARIABLES main, query_engine, disk, inflight, out

vars == <<main, query_engine, disk, inflight, out>>

(* ------------------------------ bounds -------------------------------- *)

NumDocs == 2
MaxUploads == 2
MaxQueryLen == 1

(* ------------------------------ values -------------------------------- *)

\* Uploaded documents that yield nodes; each build of d writes content d.
Docs == 1..NumDocs

\* An uploaded file for which reader.load_data() returns no documents.
NoDocuments == 0

Uploadable == Docs \cup {NoDocuments}

\* Content of a snapshot file: not there, a build's content, or a torn write.
Absent == 0
Corrupt == NumDocs + 1

\* query_engine = None (line 40): the Uninitialized state.
None == [doc |-> Absent, vec |-> Absent]

\* The store built from document d alone.
Store(d) == [doc |-> d, vec |-> d]

\* The store load_index_from_storage reconstructs from the directory.
StoreOf(dk) == [doc |-> dk.docstore, vec |-> dk.vector_store]

EmptyDisk == [docstore |-> Absent, vector_store |-> Absent]

(* --------------------------- request bodies --------------------------- *)

Chars == {" ", "a"}

Strings == UNION {[1..n -> Chars] : n \in 0..MaxQueryLen}

\* A /api/query body: not a JSON object, an object without 'query', or an
\* object whose 'query' is a string.
Bodies ==
    {[kind |-> "bad_json", text |-> <<>>], [kind |-> "no_field", text |-> <<>>]}
        \cup {[kind |-> "text", text |-> s] : s \in Strings}

NoBody == [kind |-> "none", text |-> <<>>]

\* Python's `not user_query` (line 132): None and '' are falsy, every other
\* string, a blank one included, is truthy.
NotUserQuery(body) == body.kind = "no_field" \/ Len(body.text) = 0

(* ------------------------------ outputs ------------------------------- *)

\* What the last step returned to its caller and printed: op is the
\* operation, status the HTTP status, msg the response, ret and log the
\* return value and the print of the load_query_engine call it made,
\* store the engine that answered, called whether query_engine.query ran.
Out(op, status, msg, doc, ret, log, store, called, body) ==
    [op |-> op, status |-> status, msg |-> msg, doc |-> doc, ret |-> ret,
     log |-> log, store |-> store, called |-> called, body |-> body]

NoOut == Out("none", 0, "", NoDocuments, FALSE, "", None, FALSE, NoBody)

UploadOut(status, msg, doc, ret, log) ==
    Out("upload", status, msg, doc, ret, log, None, FALSE, NoBody)

LoadOut(ret, log) == Out("load", 0, "", NoDocuments, ret, log, None, FALSE, NoBody)

QueryOut(status, msg, store, called, body) ==
    Out("query", status, msg, NoDocuments, FALSE, "", store, called, body)

(* --------------------------- index_file ------------------------------- *)

\* storage_context.persist writing one snapshot file in place (line 81):
\* the file is written, or the write raises before touching it, or it
\* raises leaving the file torn.
WriteFile(dk, f, d) ==
    {[disk |-> [dk EXCEPT ![f] = d], ok |-> TRUE],
     [disk |-> dk, ok |-> FALSE],
     [disk |-> [dk EXCEPT ![f] = Corrupt], ok |-> FALSE]}

\* storage_context.persist(persist_dir=PERSIST_DIR) (line 81): docstore.json
\* first, then the vector store, each in place in PERSIST_DIR.
Persist(dk, d) ==
    LET first == WriteFile(dk, "docstore", d)
    IN  {r \in first : ~r.ok}
            \cup UNION {WriteFile(r.disk, "vector_store", d) : r \in {x \in first : x.ok}}

\* Lines 66-78: read, chunk and embed file f in memory. "empty" is the
\* early return of line 72, "raise" any exception of the reader, the
\* splitter or the embedder.
BuildOutcomes(f) ==
    {"raise"} \cup (IF f = NoDocuments THEN {"empty"} ELSE {"built"})

\* index_file(file_path) on directory dk: the directory it leaves and
\* whether it raised (line 86).
IndexFile(dk, f) ==
    UNION {CASE b = "raise" -> {[disk |-> dk, raised |-> TRUE]}
             [] b = "empty" -> {[disk |-> dk, raised |-> FALSE]}
             [] b = "built" -> {[disk |-> r.disk, raised |-> ~r.ok] : r \in Persist(dk, f)}
           : b \in BuildOutcomes(f)}

(* ------------------------- load_query_engine -------------------------- *)

\* load_index_from_storage succeeds only when every file it reads parses.
Loadable(dk) == dk.docstore \in Docs /\ dk.vector_store \in Docs

\* load_query_engine with the rebinding of line 53 moved ahead of the load:
\* a load that then raises has already rebound the global.
LoadQueryEngineBindsFirst(dk, eng) ==
    IF dk.docstore = Absent
    THEN {[ret |-> FALSE, log |-> "absent", engine |-> eng]}
    ELSE {[ret |-> FALSE, log |-> "failed",
           engine |-> IF Loadable(dk) THEN StoreOf(dk) ELSE eng]}
            \cup (IF Loadable(dk)
                  THEN {[ret |-> TRUE, log |-> "loaded", engine |-> StoreOf(dk)]}
                  ELSE {})

\* load_query_engine() on directory dk with the global bound to eng: its
\* return value, the line it prints and the global afterwards.  A missing
\* docstore.json is the else branch (lines 60-62); otherwise the load may
\* raise (lines 57-59) or bind the engine to the store it read (line 53).
LoadQueryEngine(dk, eng) ==
    IF dk.docstore = Absent
    THEN {[ret |-> FALSE, log |-> "absent", engine |-> eng]}
    ELSE {[ret |-> FALSE, log |-> "failed", engine |-> eng]}
            \cup (IF Loadable(dk)
                  THEN {[ret |-> TRUE, log |-> "loaded", engine |-> StoreOf(dk)]}
                  ELSE {})

(* --------------------------- handle_upload ---------------------------- *)

UploadRequests ==
    {[kind |-> "no_part", file |-> NoDocuments],
     [kind |-> "empty_name", file |-> NoDocuments]}
        \cup {[kind |-> "file", file |-> f] : f \in Uploadable}

\* Lines 108-114: the response after load_query_engine returned r.
UploadResponse(f, r) ==
    IF r.ret
    THEN UploadOut(200, "indexed", f, r.ret, r.log)
    ELSE UploadOut(500, "load_failed", f, r.ret, r.log)

\* Lines 90-96 and 103: the responses handle_upload can give before it
\* calls index_file (none when the file was saved).
EarlyResponses(req) ==
    CASE req.kind = "no_part" -> {UploadOut(400, "no_file", req.file, FALSE, "")}
      [] req.kind = "empty_name" -> {UploadOut(400, "empty_name", req.file, FALSE, "")}
      [] OTHER -> {UploadOut(500, "save_error", req.file, FALSE, "")}

\* handle_upload() as one step: the directory, the global and the response.
HandleUploadOutcomes(req, dk, eng) ==
    {[disk |-> dk, engine |-> eng, out |-> o] : o \in EarlyResponses(req)}
        \cup
    (IF req.kind # "file" THEN {} ELSE
        UNION {IF i.raised
               THEN {[disk |-> i.disk, engine |-> eng,
                      out |-> UploadOut(500, "index_error", req.file, FALSE, "")]}
               ELSE {[disk |-> i.disk, engine |-> r.engine,
                      out |-> UploadResponse(req.file, r)]
                     : r \in LoadQueryEngine(i.disk, eng)}
               : i \in IndexFile(dk, req.file)})

(* ---------------------------- handle_query ---------------------------- *)

\* handle_query with the test of line 132 ahead of the test of line 124.
HandleQueryValidatesFirst(body, eng) ==
    IF body.kind = "bad_json"
    THEN {QueryOut(500, "exception", None, FALSE, body)}
    ELSE IF NotUserQuery(body)
    THEN {QueryOut(400, "no_query", None, FALSE, body)}
    ELSE IF eng = None
    THEN {QueryOut(400, "not_ready", None, FALSE, body)}
    ELSE {QueryOut(200, "response", eng, TRUE, body),
          QueryOut(500, "exception", eng, TRUE, body)}

\* handle_query() with the global bound to eng (lines 124-145).
HandleQueryOutcomes(body, eng) ==
    IF eng = None
    THEN {QueryOut(400, "not_ready", None, FALSE, body)}
    ELSE IF body.kind = "bad_json"
    THEN {QueryOut(500, "exception", None, FALSE, body)}
    ELSE IF NotUserQuery(body)
    THEN {QueryOut(400, "no_query", None, FALSE, body)}
    ELSE {QueryOut(200, "response", eng, TRUE, body),
          QueryOut(500, "exception", eng, TRUE, body)}

(* ------------------------------ actions ------------------------------- *)

Init ==
    /\ main = "startup"
    /\ query_engine = None
    /\ disk = EmptyDisk
    /\ inflight = EmptyBag
    /\ out = NoOut

\* __main__ (lines 147-153): load_query_engine() before serving.
Startup ==
    /\ main = "startup"
    /\ \E r \in LoadQueryEngine(disk, query_engine) :
        /\ query_engine' = r.engine
        /\ out' = LoadOut(r.ret, r.log)
    /\ main' = "serving"
    /\ UNCHANGED <<disk, inflight>>

\* The process is stopped and started again: the module is re-executed
\* (line 40), the handlers in flight are gone, PERSIST_DIR is kept.
Restart ==
    /\ main' = "startup"
    /\ query_engine' = None
    /\ inflight' = EmptyBag
    /\ out' = NoOut
    /\ UNCHANGED disk

\* POST /api/query.
HandleQuery ==
    /\ main = "serving"
    /\ \E body \in Bodies : \E o \in HandleQueryOutcomes(body, query_engine) :
        out' = o
    /\ UNCHANGED <<main, query_engine, disk, inflight>>

\* POST /api/upload, served with no other upload in flight.
HandleUpload ==
    /\ main = "serving"
    /\ inflight = EmptyBag
    /\ \E req \in UploadRequests : \E r \in HandleUploadOutcomes(req, disk, query_engine) :
        /\ disk' = r.disk
        /\ query_engine' = r.engine
        /\ out' = r.out
    /\ UNCHANGED <<main, inflight>>

(* An upload handler running on its own thread: a record of inflight. *)

Handler(pc, f) == [pc |-> pc, doc |-> f]

Enter(u) == inflight (+) SetToBag({u})
Leave(u) == inflight (-) SetToBag({u})
Move(u, v) == (inflight (-) SetToBag({u})) (+) SetToBag({v})

\* Lines 90-78: validation, file.save and the in-memory build; the handler
\* answers at once or goes on to persist (or, with no documents, to load).
UploadBegin ==
    /\ main = "serving"
    /\ BagCardinality(inflight) < MaxUploads
    /\ \E req \in UploadRequests :
        \/ \E o \in EarlyResponses(req) :
            /\ out' = o
            /\ UNCHANGED inflight
        \/ /\ req.kind = "file"
           /\ \E b \in BuildOutcomes(req.file) :
                CASE b = "raise" ->
                        /\ out' = UploadOut(500, "index_error", req.file, FALSE, "")
                        /\ UNCHANGED inflight
                  [] b = "empty" ->
                        /\ out' = NoOut
                        /\ inflight' = Enter(Handler("load", req.file))
                  [] b = "built" ->
                        /\ out' = NoOut
                        /\ inflight' = Enter(Handler("persist_docstore", req.file))
    /\ UNCHANGED <<main, query_engine, disk>>

\* Line 81, one file of the snapshot: on success the handler goes on to
\* pc next, on failure index_file raises and the handler answers 500.
PersistFile(u, f, next) ==
    \E r \in WriteFile(disk, f, u.doc) :
        /\ disk' = r.disk
        /\ IF r.ok
           THEN /\ inflight' = Move(u, Handler(next, u.doc))
                /\ out' = NoOut
           ELSE /\ inflight' = Leave(u)
                /\ out' = UploadOut(500, "index_error", u.doc, FALSE, "")

PersistDocstore ==
    /\ \E u \in BagToSet(inflight) :
        /\ u.pc = "persist_docstore"
        /\ PersistFile(u, "docstore", "persist_vector_store")
    /\ UNCHANGED <<main, query_engine>>

PersistVectorStore ==
    /\ \E u \in BagToSet(inflight) :
        /\ u.pc = "persist_vector_store"
        /\ PersistFile(u, "vector_store", "load")
    /\ UNCHANGED <<main, query_engine>>

\* Lines 108-114: load_query_engine() and the response.
UploadLoad ==
    /\ \E u \in BagToSet(inflight) :
        /\ u.pc = "load"
        /\ \E r \in LoadQueryEngine(disk, query_engine) :
            /\ query_engine' = r.engine
            /\ out' = UploadResponse(u.doc, r)
        /\ inflight' = Leave(u)
    /\ UNCHANGED <<main, disk>>

Next ==
    \/ Startup
    \/ Restart
    \/ HandleQuery
    \/ UploadBegin
    \/ PersistDocstore
    \/ PersistVectorStore
    \/ UploadLoad

Spec == Init /\ [][Next]_vars

SeqNext ==
    \/ Startup
    \/ Restart
    \/ HandleQuery
    \/ HandleUpload

SeqSpec == Init /\ [][SeqNext]_vars

(* ------------------------------ claims -------------------------------- *)

\* A store whose node store and vector store come from one build.
Complete(s) == s.doc \in Docs /\ s.vec = s.doc

\* The query text is missing, empty or whitespace only.
MissingEmptyOrBlank(body) ==
    \/ body.kind = "no_field"
    \/ body.kind = "text" /\ \A i \in 1..Len(body.text) : body.text[i] = " "

\* C1: an upload whose index_file raised (reading, chunking, embedding or
\* persisting) leaves query_engine and the snapshot in PERSIST_DIR exactly
\* as they were before the upload.
C1_FailedBuildLeavesStateUnchanged ==
    [][(out'.op = "upload" /\ out'.msg = "index_error")
            => (query_engine' = query_engine /\ disk' = disk)]_vars

\* C2: with requests served one at a time, a load_query_engine call that
\* succeeds (at startup or in an upload) never binds query_engine to a
\* snapshot that a failed persist left partially written: the store it
\* binds comes from one build.
C2_NoPartialSnapshotAccepted ==
    [][(out'.op \in {"load", "upload"} /\ out'.ret) => Complete(query_engine')]_vars

\* C3: while an upload has written docstore.json of its build and not yet
\* the vector store, no concurrent load_query_engine binds query_engine to
\* that half-written directory (the new docstore with another vector store).
C3_ConcurrentLoadSeesCompleteStore ==
    [][\A u \in BagToSet(inflight) \cap BagToSet(inflight') :
            (u.pc = "persist_vector_store" /\ query_engine' # query_engine)
                => ~(query_engine'.doc = u.doc /\ query_engine'.vec # u.doc)]_vars

\* C4: the query that follows a success response of handle_upload for a
\* document is answered from the store built from that document alone.
C4_SecondUploadReplacesFirst ==
    [][(out.op = "upload" /\ out.status = 200
            /\ out'.op = "query" /\ out'.status = 200)
            => out'.store = Store(out.doc)]_vars

\* C5: a query handled while query_engine is None gets the not-ready error
\* whatever its body, does not call query_engine.query, and changes neither
\* the global, the snapshot nor the uploads in flight.
C5_NotReadyFailsFast ==
    [][(out'.op = "query" /\ query_engine = None)
            => /\ out'.status = 400
               /\ out'.msg = "not_ready"
               /\ ~out'.called
               /\ out'.store = None
               /\ UNCHANGED <<main, query_engine, disk, inflight>>]_vars

\* C5 witness: a non-empty text query was refused as not ready while a
\* build had already reached PERSIST_DIR and an upload was in flight.
C5_Witness ==
    /\ out.op = "query"
    /\ out.msg = "not_ready"
    /\ query_engine = None
    /\ out.body.kind = "text"
    /\ Len(out.body.text) > 0
    /\ disk.docstore \in Docs
    /\ inflight # EmptyBag

\* C6: a success response of handle_upload implies that an index was built
\* from the uploaded document, persisted, and bound as the active engine.
C6_SuccessImpliesBuiltAndBound ==
    (out.op = "upload" /\ out.status = 200)
        => /\ out.doc \in Docs
           /\ StoreOf(disk) = Store(out.doc)
           /\ query_engine = Store(out.doc)

\* C7: query_engine goes from None to non-None only in a step whose
\* load_query_engine returned True, and is then the store read from the
\* snapshot; a successful load leaves it non-None and bound to the snapshot
\* it read; a success response of handle_upload leaves it non-None.
C7_ReadyExactlyOnSuccessfulLoad ==
    [][/\ (query_engine = None /\ query_engine' # None)
            => /\ out'.op \in {"load", "upload"}
               /\ out'.ret
               /\ query_engine' = StoreOf(disk)
       /\ (out'.op = "load" /\ out'.ret)
            => (query_engine' # None /\ query_engine' = StoreOf(disk'))
       /\ (out'.op = "upload" /\ out'.status = 200)
            => query_engine' # None]_vars

\* C7 witness: the startup load after a restart found a snapshot and bound it.
C7_Witness ==
    /\ out.op = "load"
    /\ out.ret
    /\ query_engine # None
    /\ query_engine = StoreOf(disk)

\* C8: a load_query_engine call that failed on a structurally invalid
\* snapshot (a file torn or missing beside docstore.json) returned a value
\* that the call never returns when PERSIST_DIR holds no snapshot, so its
\* caller can tell the failure from absence.
C8_AbsentDistinctFromFailure ==
    (out.log = "failed" /\ ~Loadable(disk))
        => out.ret \notin {r.ret : r \in LoadQueryEngine(EmptyDisk, query_engine)}

\* C9: with query_engine bound, a query whose text is missing, empty or
\* whitespace only gets the empty-query error and query_engine.query is
\* not called.
C9_BlankQueryRejected ==
    (out.op = "query" /\ out.msg # "not_ready" /\ MissingEmptyOrBlank(out.body))
        => (out.status = 400 /\ out.msg = "no_query" /\ ~out.called)

\* C10: with no upload in progress, a bound query_engine has the content of
\* the snapshot in PERSIST_DIR.
C10_EngineAgreesWithSnapshot ==
    (main = "serving" /\ inflight = EmptyBag /\ query_engine # None)
        => query_engine = StoreOf(disk)

====
